---------------------------- MODULE Spec2Model ----------------------------
(***************************************************************************)
(* A model of the University Management API (src/main.py) and of the       *)
(* pydantic schemas of courses and enrollments (src/models/course.py,      *)
(* src/models/enrollment.py).                                              *)
(*                                                                         *)
(* Values.  A JSON / Python value is a tagged tuple: <<"null">> (None),    *)
(* <<"int", n>>, <<"str", s>> and <<"date", y, m, d>> (datetime.date).     *)
(* The text of a string whose characters the program looks at (course_id,  *)
(* name, a number given as a string) is a sequence of one-character        *)
(* strings; the text of every other string is opaque.                      *)
(* A request body is a function from the keys the client supplied to raw   *)
(* values; a key that is not in its DOMAIN was not supplied.               *)
(*                                                                         *)
(* Abstractions.  uuid4() returns an identifier it has never returned for  *)
(* that store before.  datetime.utcnow() is a clock that never goes back.  *)
(* A list response is the set of its records (the dict's insertion order   *)
(* is not modelled).                                                       *)
(***************************************************************************)
EXTENDS Integers, Sequences, FiniteSets, TLC

\* ------------------------------------------------------------------ bounds
\* uuid4 draws from 1..MaxIds; path identifiers are drawn from the same set.
MaxIds == 2
\* datetime.utcnow() returns a value in 0..MaxClock.
MaxClock == 1
\* Requests served in one behaviour.
MaxReqs == 3
MaxWorkers == 2

UUIDs == 1..MaxIds
Times == 0..MaxClock

\* ------------------------------------------------------------------ values
Null == <<"null">>
JInt(n) == <<"int", n>>
JStr(s) == <<"str", s>>
JDate(y, m, d) == <<"date", y, m, d>>
Tag(v) == v[1]
\* What a field validator returns for an input it rejects.
Invalid == <<"invalid">>

UpperChars == {"A", "B", "C", "D", "E", "F", "G", "H", "I", "J", "K", "L", "M",
               "N", "O", "P", "Q", "R", "S", "T", "U", "V", "W", "X", "Y", "Z"}
Uppers == <<"A", "B", "C", "D", "E", "F", "G", "H", "I", "J", "K", "L", "M",
            "N", "O", "P", "Q", "R", "S", "T", "U", "V", "W", "X", "Y", "Z">>
Lowers == <<"a", "b", "c", "d", "e", "f", "g", "h", "i", "j", "k", "l", "m",
            "n", "o", "p", "q", "r", "s", "t", "u", "v", "w", "x", "y", "z">>
DigitChars == <<"0", "1", "2", "3", "4", "5", "6", "7", "8", "9">>
IsDigit(c) == \E i \in 1..10 : DigitChars[i] = c
DigitValue(c) == (CHOOSE i \in 1..10 : DigitChars[i] = c) - 1

\* A lower() that leaves the text as it is.
lower_keeping(s) == s

\* str.lower() on one character, and on a text.
LowerChar(c) == IF c \in UpperChars
                THEN Lowers[CHOOSE i \in 1..26 : Uppers[i] = c]
                ELSE c
lower(s) == [i \in 1..Len(s) |-> LowerChar(s[i])]

\* Python's `a in b` on two texts: a is a contiguous part of b.
Contains(a, b) ==
    \E k \in 0..Len(b) :
        /\ k + Len(a) <= Len(b)
        /\ \A i \in 1..Len(a) : b[k + i] = a[i]

\* int(text) for a text of decimal digits.
RECURSIVE DigitsToInt(_)
DigitsToInt(s) ==
    IF Len(s) = 0 THEN 0
    ELSE 10 * DigitsToInt(SubSeq(s, 1, Len(s) - 1)) + DigitValue(s[Len(s)])

\* ------------------------------------------------------- field validators
\* Each takes a raw value and returns the validated value, or Invalid.

\* str: a JSON string is kept; nothing else is coerced to a string.
StrField(v) == IF Tag(v) = "str" THEN v ELSE Invalid

\* int: a JSON integer is kept; a string of decimal digits is parsed (lax mode).
IntField(v) ==
    IF Tag(v) = "int" THEN v
    ELSE IF /\ Tag(v) = "str"
            /\ Len(v[2]) > 0
            /\ \A i \in 1..Len(v[2]) : IsDigit(v[2][i])
         THEN JInt(DigitsToInt(v[2]))
         ELSE Invalid

\* The regular expression ^[A-Z]{2,4}\d{4}$ on a text.
CourseIDPattern(s) ==
    \E k \in 2..4 :
        /\ Len(s) = k + 4
        /\ \A i \in 1..k : s[i] \in UpperChars
        /\ \A i \in (k + 1)..(k + 4) : IsDigit(s[i])

CourseIDType(v) ==
    IF Tag(v) = "str" /\ CourseIDPattern(v[2]) THEN v ELSE Invalid

\* UNIType is declared in models/person.py: a string.
UNIType(v) == IF Tag(v) = "str" THEN v ELSE Invalid

\* Field(ge=1, le=6) on an int.
MinCredits == 1
MaxCredits == 6
\* The field with its upper bound left out.
CreditsFieldUnbounded(v) ==
    LET n == IntField(v)
    IN  IF n # Invalid /\ n[2] >= MinCredits THEN n ELSE Invalid

CreditsField(v) ==
    LET n == IntField(v)
    IN  IF n # Invalid /\ n[2] >= MinCredits /\ n[2] <= MaxCredits THEN n ELSE Invalid

\* Field(ge=1) on an int.
MinMaxEnrollment == 1
MaxEnrollmentField(v) ==
    LET n == IntField(v)
    IN  IF n # Invalid /\ n[2] >= MinMaxEnrollment THEN n ELSE Invalid

\* Field(ge=0) on an int.
MinCreditsEarned == 0
CreditsEarnedField(v) ==
    LET n == IntField(v)
    IN  IF n # Invalid /\ n[2] >= MinCreditsEarned THEN n ELSE Invalid

\* EnrollmentStatus: the enumeration's four values.
EnrollmentStatus == {"active", "dropped", "completed", "withdrawn"}
ACTIVE == JStr("active")
StatusField(v) ==
    IF Tag(v) = "str" /\ v[2] \in EnrollmentStatus THEN v ELSE Invalid

\* date: an ISO text YYYY-MM-DD is parsed; a date is kept.
IsoDates == {"2024-08-15", "2024-08-20"}
ParseDate(s) == IF s = "2024-08-15" THEN JDate(2024, 8, 15) ELSE JDate(2024, 8, 20)
DateField(v) ==
    IF Tag(v) = "date" THEN v
    ELSE IF Tag(v) = "str" /\ v[2] \in IsoDates THEN ParseDate(v[2]) ELSE Invalid
\* str(date): the ISO text.
DateStr(d) == IF d = JDate(2024, 8, 15) THEN "2024-08-15" ELSE "2024-08-20"


\* ------------------------------------------------------------ course schemas
CourseFields == {"course_id", "name", "department", "credits", "description",
                 "instructor_uni", "semester", "max_enrollment"}
\* The fields declared Optional[...] = Field(None, ...) in CourseBase.
CourseOptional == {"description", "max_enrollment"}
ReadOnlyFields == {"id", "created_at", "updated_at"}

\* The annotated type of a course field, without Optional.
CourseFieldType(f, v) ==
    CASE f = "course_id"      -> CourseIDType(v)
      [] f = "name"           -> StrField(v)
      [] f = "department"     -> StrField(v)
      [] f = "credits"        -> CreditsField(v)
      [] f = "description"    -> StrField(v)
      [] f = "instructor_uni" -> UNIType(v)
      [] f = "semester"       -> StrField(v)
      [] f = "max_enrollment" -> MaxEnrollmentField(v)

\* CourseBase: None is accepted by the Optional fields only.
CourseBaseField(f, v) ==
    IF f \in CourseOptional /\ v = Null THEN Null ELSE CourseFieldType(f, v)

\* The fields of a dict that CourseBase rejects (a missing required field, or a
\* value its type does not accept); keys that are no field are ignored.
CourseBaseErrors(d) ==
    {f \in CourseFields :
        IF f \in DOMAIN d THEN CourseBaseField(f, d[f]) = Invalid
        ELSE f \notin CourseOptional}

\* CourseCreate(**body).model_dump(): every field, the omitted Optional ones None.
CourseCreate(body) ==
    [f \in CourseFields |->
        IF f \in DOMAIN body THEN CourseBaseField(f, body[f]) ELSE Null]

\* CourseUpdate: every field Optional, None accepted everywhere.
CourseUpdateField(f, v) == IF v = Null THEN Null ELSE CourseFieldType(f, v)
CourseUpdateErrors(body) ==
    {f \in CourseFields \cap DOMAIN body : CourseUpdateField(f, body[f]) = Invalid}
\* CourseUpdate(**body).model_dump(exclude_unset=True): the supplied fields only.
CourseUpdate(body) ==
    [f \in CourseFields \cap DOMAIN body |-> CourseUpdateField(f, body[f])]

\* CourseRead(**d): the fields validated as in CourseBase; id, created_at and
\* updated_at taken from d, or from their default factories (gen) when d has none.
CourseRead(d, gen) ==
    [f \in CourseFields \cup ReadOnlyFields |->
        IF f \in CourseFields
        THEN IF f \in DOMAIN d THEN CourseBaseField(f, d[f]) ELSE Null
        ELSE IF f \in DOMAIN d THEN d[f] ELSE gen[f]]

\* A merge that also resets every Optional field the patch omits to None.
DictUpdateResetting(stored, patch) ==
    [f \in DOMAIN stored \cup DOMAIN patch |->
        IF f \in DOMAIN patch THEN patch[f]
        ELSE IF f \in {"description", "max_enrollment", "grade", "credits_earned"}
             THEN Null ELSE stored[f]]

\* dict.update: stored.update(patch).
DictUpdate(stored, patch) ==
    [f \in DOMAIN stored \cup DOMAIN patch |->
        IF f \in DOMAIN patch THEN patch[f] ELSE stored[f]]

\* store[key] = record
Put(store, key, record) ==
    [k \in DOMAIN store \cup {key} |-> IF k = key THEN record ELSE store[k]]
\* del store[key]
Del(store, key) == [k \in DOMAIN store \ {key} |-> store[k]]

\* ---------------------------------------------------------------- responses
Ok(code, body) == [status |-> code, body |-> body]
\* raise HTTPException(status_code=code, detail=detail)
HTTPException(code, detail) == [status |-> code, body |-> detail]
\* FastAPI's answer to a body its schema rejects: the failing fields.
RequestValidationError(fields) == [status |-> 422, body |-> fields]
\* An exception that no handler catches.
InternalServerError == [status |-> 500, body |-> "Internal Server Error"]

\* ------------------------------------------------------------------- state
VARIABLES
    persons,      \* Dict[UUID, PersonRead]
    addresses,    \* Dict[UUID, AddressRead]
    courses,      \* Dict[UUID, CourseRead]
    enrollments,  \* Dict[UUID, EnrollmentRead]
    issued,       \* per store, the identifiers uuid4() has returned
    now,          \* the last value datetime.utcnow() returned
    nreq,         \* the number of requests served
    req,          \* the last request: [op, id, body]
    resp,         \* its response: [status, body]
    threads,      \* per worker of the thread pool: the handler it is in
    answered      \* the responses of the handlers the workers have run

stores == <<persons, addresses, courses, enrollments>>
vars == <<persons, addresses, courses, enrollments, issued, now, nreq, req, resp,
          threads, answered>>

NoBody == <<>>
Request(op, id, body) == [op |-> op, id |-> id, body |-> body]

\* The workers of the thread pool, and a worker that is in no handler.
Workers == 1..MaxWorkers
Idle == [pc |-> 0, req |-> Request("none", 0, NoBody), stored |-> NoBody]

\* A request is served, its handler run from entry to return with no other
\* handler running: it is recorded with its response.
Serve(r, answer) ==
    /\ nreq' = nreq + 1
    /\ req' = r
    /\ resp' = answer
    /\ UNCHANGED <<threads, answered>>

\* The operations that write to a store when they succeed.
WriteOps == {"create_course", "update_course", "replace_course", "delete_course",
             "create_enrollment", "update_enrollment", "replace_enrollment",
             "delete_enrollment", "create_address", "update_address",
             "create_person", "update_person"}
\* The last request wrote to its store (or there was none yet).
Wrote == req.op = "none" \/ (req.op \in WriteOps /\ resp.status < 400)

\* Another request is served.  At most MaxReqs are; and a request that leaves
\* the stores, the clock and the identifiers as they were (a read, or a request
\* that is refused) is explored as the last request of a behaviour: the state
\* after it differs from the state before it in req and resp alone, so whatever
\* can follow it is explored from the state before it.
CanServe == nreq < MaxReqs /\ Wrote

\* An identifier source that hands out the least identifier again and again.
uuid4_reusing(store) == {id \in UUIDs : \A other \in UUIDs : id <= other}

\* uuid4(): an identifier never returned for this store.  Identifiers are only
\* ever compared for equality, so the least unused one stands for any of them.
uuid4(store) ==
    {id \in UUIDs \ issued[store] : \A other \in UUIDs \ issued[store] : id <= other}

\* datetime.utcnow(): the clock has not gone back since it last returned t.
utcnow(t) == {u \in Times : t <= u /\ u <= t + 1}

\* -------------------------------------------------------- sample course data
CS1234 == <<"C", "S", "1", "2", "3", "4">>
MATH1001 == <<"M", "A", "T", "H", "1", "0", "0", "1">>
cs123 == <<"c", "s", "1", "2", "3">>
Intro == <<"I", "n", "t", "r", "o">>
Calc == <<"C", "a", "l", "c">>

CourseA ==
    [course_id |-> JStr(CS1234), name |-> JStr(Intro),
     department |-> JStr("Computer Science"), credits |-> JInt(3),
     description |-> JStr("An introduction"), instructor_uni |-> JStr("pr123"),
     semester |-> JStr("Fall 2024"), max_enrollment |-> JInt(30)]
\* The Optional fields omitted, the credits given as a string.
CourseB ==
    [course_id |-> JStr(MATH1001), name |-> JStr(Calc),
     department |-> JStr("Mathematics"), credits |-> JStr(<<"4">>),
     instructor_uni |-> JStr("mat456"), semester |-> JStr("Spring 2025")]

\* Bodies of POST /courses and PUT /courses/{id}: two valid ones, then one per
\* constraint that can fail.
CourseBodies ==
    << CourseA,
       CourseB,
       [CourseA EXCEPT !.credits = JInt(7)],
       [CourseA EXCEPT !.course_id = JStr(cs123)],
       [CourseA EXCEPT !.max_enrollment = JInt(0)],
       [f \in DOMAIN CourseB \ {"name"} |-> CourseB[f]] >>

\* Bodies of PATCH /courses/{id}.
CourseUpdates ==
    << [f \in {} |-> Null],
       [credits |-> JInt(2)],
       [name |-> JStr(Calc), max_enrollment |-> Null],
       [semester |-> JStr("Spring 2025"), id |-> JInt(2), created_at |-> JInt(1)],
       [credits |-> JInt(0)],
       [course_id |-> JStr(cs123)],
       [name |-> Null],
       [credits |-> Null, description |-> JStr("Advanced topics")] >>

\* ------------------------------------------------------------ course handlers
\* A create that builds the record twice: once to store it, once to return it.
create_course_twice(body) ==
    /\ CanServe
    /\ IF CourseBaseErrors(body) # {}
       THEN /\ Serve(Request("create_course", 0, body),
                     RequestValidationError(CourseBaseErrors(body)))
            /\ UNCHANGED <<stores, issued, now>>
       ELSE \E id \in uuid4("courses"), t1 \in utcnow(now) : \E t2 \in utcnow(t1) :
               /\ LET stored_read ==
                        CourseRead(CourseCreate(body),
                                   [id |-> id, created_at |-> t1, updated_at |-> t1])
                      course_read ==
                        CourseRead(CourseCreate(body),
                                   [id |-> id, created_at |-> t2, updated_at |-> t2])
                  IN  /\ courses' = Put(courses, stored_read.id, stored_read)
                      /\ Serve(Request("create_course", 0, body), Ok(201, course_read))
               /\ issued' = [issued EXCEPT !["courses"] = @ \cup {id}]
               /\ now' = t2
               /\ UNCHANGED <<persons, addresses, enrollments>>

\* POST /courses
create_course(body) ==
    /\ CanServe
    /\ IF CourseBaseErrors(body) # {}
       THEN /\ Serve(Request("create_course", 0, body),
                     RequestValidationError(CourseBaseErrors(body)))
            /\ UNCHANGED <<stores, issued, now>>
       ELSE \E id \in uuid4("courses"), t1 \in utcnow(now) : \E t2 \in utcnow(t1) :
               /\ LET course_read ==
                        CourseRead(CourseCreate(body),
                                   [id |-> id, created_at |-> t1, updated_at |-> t2])
                  IN  /\ courses' = Put(courses, course_read.id, course_read)
                      /\ Serve(Request("create_course", 0, body), Ok(201, course_read))
               /\ issued' = [issued EXCEPT !["courses"] = @ \cup {id}]
               /\ now' = t2
               /\ UNCHANGED <<persons, addresses, enrollments>>

\* A get that answers an unknown identifier with an empty record.
get_course_defaulting(course_uuid) ==
    /\ CanServe
    /\ IF course_uuid \notin DOMAIN courses
       THEN Serve(Request("get_course", course_uuid, NoBody),
                  Ok(200, [f \in CourseFields \cup ReadOnlyFields |-> Null]))
       ELSE Serve(Request("get_course", course_uuid, NoBody),
                  Ok(200, courses[course_uuid]))
    /\ UNCHANGED <<stores, issued, now>>

\* GET /courses/{course_uuid}
get_course(course_uuid) ==
    /\ CanServe
    /\ IF course_uuid \notin DOMAIN courses
       THEN Serve(Request("get_course", course_uuid, NoBody),
                  HTTPException(404, "Course not found"))
       ELSE Serve(Request("get_course", course_uuid, NoBody),
                  Ok(200, courses[course_uuid]))
    /\ UNCHANGED <<stores, issued, now>>

\* PATCH /courses/{course_uuid}
update_course(course_uuid, body) ==
    /\ CanServe
    /\ LET r == Request("update_course", course_uuid, body)
       IN  IF CourseUpdateErrors(body) # {}
           THEN /\ Serve(r, RequestValidationError(CourseUpdateErrors(body)))
                /\ UNCHANGED <<stores, issued, now>>
           ELSE IF course_uuid \notin DOMAIN courses
           THEN /\ Serve(r, HTTPException(404, "Course not found"))
                /\ UNCHANGED <<stores, issued, now>>
           ELSE LET stored == DictUpdate(courses[course_uuid], CourseUpdate(body))
                IN  IF CourseBaseErrors(stored) # {}
                    THEN \* CourseRead(**stored) raises ValidationError in the handler
                         /\ Serve(r, InternalServerError)
                         /\ UNCHANGED <<stores, issued, now>>
                    ELSE /\ courses' = Put(courses, course_uuid, CourseRead(stored, <<>>))
                         /\ Serve(r, Ok(200, courses'[course_uuid]))
                         /\ UNCHANGED <<persons, addresses, enrollments, issued, now>>

\* A PUT that lays the body over the stored record, as PATCH does: a field the
\* body omits keeps its value.
replaced_course_merging(existing, course_uuid, t, body) ==
    CourseRead(DictUpdate(DictUpdate(existing, CourseUpdate(body)),
                          [id |-> course_uuid, created_at |-> existing.created_at,
                           updated_at |-> t]),
               <<>>)

\* A PUT that builds the record anew, creation timestamp included.
replaced_course_recreated(existing, course_uuid, t, body) ==
    CourseRead(DictUpdate(CourseCreate(body),
                          [id |-> course_uuid, created_at |-> t, updated_at |-> t]),
               <<>>)

\* CourseRead(id=course_uuid, created_at=existing.created_at,
\*            updated_at=datetime.utcnow(), **course.model_dump())
replaced_course(existing, course_uuid, t, body) ==
    CourseRead(DictUpdate(CourseCreate(body),
                          [id |-> course_uuid, created_at |-> existing.created_at,
                           updated_at |-> t]),
               <<>>)

\* PUT /courses/{course_uuid}
replace_course(course_uuid, body) ==
    /\ CanServe
    /\ LET r == Request("replace_course", course_uuid, body)
       IN  IF CourseBaseErrors(body) # {}
           THEN /\ Serve(r, RequestValidationError(CourseBaseErrors(body)))
                /\ UNCHANGED <<stores, issued, now>>
           ELSE IF course_uuid \notin DOMAIN courses
           THEN /\ Serve(r, HTTPException(404, "Course not found"))
                /\ UNCHANGED <<stores, issued, now>>
           ELSE \E t \in utcnow(now) :
                   /\ LET existing == courses[course_uuid]
                          course_read == replaced_course(existing, course_uuid, t, body)
                      IN  /\ courses' = Put(courses, course_uuid, course_read)
                          /\ Serve(r, Ok(200, course_read))
                   /\ now' = t
                   /\ UNCHANGED <<persons, addresses, enrollments, issued>>

\* A delete that confirms and leaves the record where it is.
delete_course_keeping(course_uuid) ==
    /\ CanServe
    /\ LET r == Request("delete_course", course_uuid, NoBody)
       IN  IF course_uuid \notin DOMAIN courses
           THEN Serve(r, HTTPException(404, "Course not found"))
           ELSE Serve(r, Ok(200, [message |-> "Course deleted successfully"]))
    /\ UNCHANGED <<stores, issued, now>>

\* A delete that takes the enrollments carrying the course's course_id with it.
delete_course_cascading(course_uuid) ==
    /\ CanServe
    /\ LET r == Request("delete_course", course_uuid, NoBody)
       IN  IF course_uuid \notin DOMAIN courses
           THEN /\ Serve(r, HTTPException(404, "Course not found"))
                /\ UNCHANGED <<stores, issued, now>>
           ELSE /\ courses' = Del(courses, course_uuid)
                /\ enrollments' =
                      [k \in {e \in DOMAIN enrollments :
                                 enrollments[e].course_id # courses[course_uuid].course_id}
                          |-> enrollments[k]]
                /\ Serve(r, Ok(200, [message |-> "Course deleted successfully"]))
                /\ UNCHANGED <<persons, addresses, issued, now>>

\* DELETE /courses/{course_uuid}
delete_course(course_uuid) ==
    /\ CanServe
    /\ LET r == Request("delete_course", course_uuid, NoBody)
       IN  IF course_uuid \notin DOMAIN courses
           THEN /\ Serve(r, HTTPException(404, "Course not found"))
                /\ UNCHANGED <<stores, issued, now>>
           ELSE /\ courses' = Del(courses, course_uuid)
                /\ Serve(r, Ok(200, [message |-> "Course deleted successfully"]))
                /\ UNCHANGED <<persons, addresses, enrollments, issued, now>>

\* dict.values()
Values(store) == {store[k] : k \in DOMAIN store}

\* Query strings of GET /courses.
CourseQueries ==
    << [f \in {} |-> Null],
       [course_id |-> JStr(CS1234)],
       [name |-> JStr(<<"C", "A", "L">>)],
       [name |-> JStr(<<"i", "n">>), credits |-> JStr(<<"3">>)],
       [department |-> JStr("Mathematics"), semester |-> JStr("Spring 2025")],
       [instructor_uni |-> JStr("pr123"), credits |-> JInt(2)],
       [credits |-> JStr(<<"x">>)] >>

\* The query parameters FastAPI rejects: credits is Optional[int].
CourseQueryErrors(q) ==
    {f \in DOMAIN q : f = "credits" /\ IntField(q[f]) = Invalid}

\* GET /courses
list_courses(q) ==
    /\ CanServe
    /\ LET r == Request("list_courses", 0, q)
           credits == IF "credits" \in DOMAIN q THEN IntField(q.credits) ELSE Null
           r0 == Values(courses)
           r1 == IF "course_id" \in DOMAIN q
                 THEN {c \in r0 : c.course_id = q.course_id} ELSE r0
           r2 == IF "name" \in DOMAIN q
                 THEN {c \in r1 : Contains(lower(q.name[2]), lower(c.name[2]))} ELSE r1
           r3 == IF "department" \in DOMAIN q
                 THEN {c \in r2 : c.department = q.department} ELSE r2
           r4 == IF "instructor_uni" \in DOMAIN q
                 THEN {c \in r3 : c.instructor_uni = q.instructor_uni} ELSE r3
           r5 == IF "semester" \in DOMAIN q
                 THEN {c \in r4 : c.semester = q.semester} ELSE r4
           r6 == IF credits # Null
                 THEN {c \in r5 : c.credits = credits} ELSE r5
       IN  /\ IF CourseQueryErrors(q) # {}
              THEN Serve(r, RequestValidationError(CourseQueryErrors(q)))
              ELSE Serve(r, Ok(200, r6))
           /\ UNCHANGED <<stores, issued, now>>

\* -------------------------------------------------------- enrollment schemas
\* The fields' types with course_id declared a plain str.
EnrollmentFieldTypeFreeForm(f, v) ==
    CASE f = "student_uni"     -> UNIType(v)
      [] f = "course_id"       -> StrField(v)
      [] f = "enrollment_date" -> DateField(v)
      [] f = "status"          -> StatusField(v)
      [] f = "grade"           -> StrField(v)
      [] f = "credits_earned"  -> CreditsEarnedField(v)

EnrollmentFields == {"student_uni", "course_id", "enrollment_date", "status",
                     "grade", "credits_earned"}
\* The fields declared Optional[...] = Field(None, ...) in EnrollmentBase.
EnrollmentOptional == {"grade", "credits_earned"}
\* The fields a body may omit, and what an omitted one becomes.
EnrollmentDefaulted == {"status", "grade", "credits_earned"}
EnrollmentDefault(f) == IF f = "status" THEN ACTIVE ELSE Null

EnrollmentFieldType(f, v) ==
    CASE f = "student_uni"     -> UNIType(v)
      [] f = "course_id"       -> CourseIDType(v)
      [] f = "enrollment_date" -> DateField(v)
      [] f = "status"          -> StatusField(v)
      [] f = "grade"           -> StrField(v)
      [] f = "credits_earned"  -> CreditsEarnedField(v)

EnrollmentBaseField(f, v) ==
    IF f \in EnrollmentOptional /\ v = Null THEN Null ELSE EnrollmentFieldType(f, v)

EnrollmentBaseErrors(d) ==
    {f \in EnrollmentFields :
        IF f \in DOMAIN d THEN EnrollmentBaseField(f, d[f]) = Invalid
        ELSE f \notin EnrollmentDefaulted}

\* EnrollmentCreate(**body).model_dump()
EnrollmentCreate(body) ==
    [f \in EnrollmentFields |->
        IF f \in DOMAIN body THEN EnrollmentBaseField(f, body[f])
        ELSE EnrollmentDefault(f)]

EnrollmentUpdateField(f, v) == IF v = Null THEN Null ELSE EnrollmentFieldType(f, v)
EnrollmentUpdateErrors(body) ==
    {f \in EnrollmentFields \cap DOMAIN body :
        EnrollmentUpdateField(f, body[f]) = Invalid}
\* EnrollmentUpdate(**body).model_dump(exclude_unset=True)
EnrollmentUpdate(body) ==
    [f \in EnrollmentFields \cap DOMAIN body |-> EnrollmentUpdateField(f, body[f])]

\* EnrollmentRead(**d)
EnrollmentRead(d, gen) ==
    [f \in EnrollmentFields \cup ReadOnlyFields |->
        IF f \in EnrollmentFields
        THEN IF f \in DOMAIN d THEN EnrollmentBaseField(f, d[f])
             ELSE EnrollmentDefault(f)
        ELSE IF f \in DOMAIN d THEN d[f] ELSE gen[f]]

\* ---------------------------------------------------- sample enrollment data
EnrollmentA ==
    [student_uni |-> JStr("abc1234"), course_id |-> JStr(CS1234),
     enrollment_date |-> JStr("2024-08-15"), status |-> JStr("active"),
     grade |-> Null, credits_earned |-> JInt(0)]
\* status, grade and credits_earned omitted.
EnrollmentB ==
    [student_uni |-> JStr("xyz789"), course_id |-> JStr(MATH1001),
     enrollment_date |-> JStr("2024-08-20")]

EnrollmentBodies ==
    << EnrollmentA,
       EnrollmentB,
       [EnrollmentA EXCEPT !.status = JStr("enrolled")],
       [EnrollmentA EXCEPT !.credits_earned = JInt(-1)],
       [EnrollmentA EXCEPT !.course_id = JStr(Intro)],
       [f \in DOMAIN EnrollmentB \ {"student_uni"} |-> EnrollmentB[f]] >>

EnrollmentUpdates ==
    << [f \in {} |-> Null],
       [status |-> JStr("completed"), grade |-> JStr("A")],
       [grade |-> JStr("B+"), credits_earned |-> JStr(<<"3">>)],
       [enrollment_date |-> JStr("2024-08-20"), updated_at |-> JInt(0)],
       [status |-> JStr("enrolled")],
       [credits_earned |-> JInt(-1)],
       [status |-> Null],
       [student_uni |-> Null, grade |-> JStr("A")],
       [course_id |-> JStr(Intro)],
       [course_id |-> JStr(MATH1001)] >>

EnrollmentQueries ==
    << [f \in {} |-> Null],
       [student_uni |-> JStr("abc1234")],
       [course_id |-> JStr(MATH1001), status |-> JStr("active")],
       [status |-> JStr("completed"), grade |-> JStr("A")],
       [enrollment_date |-> JStr("2024-08-15")],
       [status |-> JStr("enrolled")] >>

\* -------------------------------------------------------- enrollment handlers
\* POST /enrollments
create_enrollment(body) ==
    /\ CanServe
    /\ IF EnrollmentBaseErrors(body) # {}
       THEN /\ Serve(Request("create_enrollment", 0, body),
                     RequestValidationError(EnrollmentBaseErrors(body)))
            /\ UNCHANGED <<stores, issued, now>>
       ELSE \E id \in uuid4("enrollments"), t1 \in utcnow(now) : \E t2 \in utcnow(t1) :
               /\ LET enrollment_read ==
                        EnrollmentRead(EnrollmentCreate(body),
                                       [id |-> id, created_at |-> t1, updated_at |-> t2])
                  IN  /\ enrollments' = Put(enrollments, enrollment_read.id, enrollment_read)
                      /\ Serve(Request("create_enrollment", 0, body),
                               Ok(201, enrollment_read))
               /\ issued' = [issued EXCEPT !["enrollments"] = @ \cup {id}]
               /\ now' = t2
               /\ UNCHANGED <<persons, addresses, courses>>

\* The query parameters FastAPI rejects: status is Optional[EnrollmentStatus].
EnrollmentQueryErrors(q) ==
    {f \in DOMAIN q : f = "status" /\ StatusField(q[f]) = Invalid}

\* GET /enrollments
list_enrollments(q) ==
    /\ CanServe
    /\ LET r == Request("list_enrollments", 0, q)
           r0 == Values(enrollments)
           r1 == IF "student_uni" \in DOMAIN q
                 THEN {e \in r0 : e.student_uni = q.student_uni} ELSE r0
           r2 == IF "course_id" \in DOMAIN q
                 THEN {e \in r1 : e.course_id = q.course_id} ELSE r1
           r3 == IF "status" \in DOMAIN q
                 THEN {e \in r2 : e.status = StatusField(q.status)} ELSE r2
           r4 == IF "enrollment_date" \in DOMAIN q
                 THEN {e \in r3 : DateStr(e.enrollment_date) = q.enrollment_date[2]} ELSE r3
           r5 == IF "grade" \in DOMAIN q
                 THEN {e \in r4 : e.grade = q.grade} ELSE r4
       IN  /\ IF EnrollmentQueryErrors(q) # {}
              THEN Serve(r, RequestValidationError(EnrollmentQueryErrors(q)))
              ELSE Serve(r, Ok(200, r5))
           /\ UNCHANGED <<stores, issued, now>>

\* GET /enrollments/{enrollment_id}
get_enrollment(enrollment_id) ==
    /\ CanServe
    /\ IF enrollment_id \notin DOMAIN enrollments
       THEN Serve(Request("get_enrollment", enrollment_id, NoBody),
                  HTTPException(404, "Enrollment not found"))
       ELSE Serve(Request("get_enrollment", enrollment_id, NoBody),
                  Ok(200, enrollments[enrollment_id]))
    /\ UNCHANGED <<stores, issued, now>>

\* PATCH /enrollments/{enrollment_id}
update_enrollment(enrollment_id, body) ==
    /\ CanServe
    /\ LET r == Request("update_enrollment", enrollment_id, body)
       IN  IF EnrollmentUpdateErrors(body) # {}
           THEN /\ Serve(r, RequestValidationError(EnrollmentUpdateErrors(body)))
                /\ UNCHANGED <<stores, issued, now>>
           ELSE IF enrollment_id \notin DOMAIN enrollments
           THEN /\ Serve(r, HTTPException(404, "Enrollment not found"))
                /\ UNCHANGED <<stores, issued, now>>
           ELSE LET stored == DictUpdate(enrollments[enrollment_id], EnrollmentUpdate(body))
                IN  IF EnrollmentBaseErrors(stored) # {}
                    THEN \* EnrollmentRead(**stored) raises ValidationError in the handler
                         /\ Serve(r, InternalServerError)
                         /\ UNCHANGED <<stores, issued, now>>
                    ELSE /\ enrollments' =
                               Put(enrollments, enrollment_id, EnrollmentRead(stored, <<>>))
                         /\ Serve(r, Ok(200, enrollments'[enrollment_id]))
                         /\ UNCHANGED <<persons, addresses, courses, issued, now>>

\* EnrollmentRead(id=enrollment_id, created_at=existing.created_at,
\*                updated_at=datetime.utcnow(), **enrollment.model_dump())
replaced_enrollment(existing, enrollment_id, t, body) ==
    EnrollmentRead(DictUpdate(EnrollmentCreate(body),
                              [id |-> enrollment_id, created_at |-> existing.created_at,
                               updated_at |-> t]),
                   <<>>)

\* PUT /enrollments/{enrollment_id}
replace_enrollment(enrollment_id, body) ==
    /\ CanServe
    /\ LET r == Request("replace_enrollment", enrollment_id, body)
       IN  IF EnrollmentBaseErrors(body) # {}
           THEN /\ Serve(r, RequestValidationError(EnrollmentBaseErrors(body)))
                /\ UNCHANGED <<stores, issued, now>>
           ELSE IF enrollment_id \notin DOMAIN enrollments
           THEN /\ Serve(r, HTTPException(404, "Enrollment not found"))
                /\ UNCHANGED <<stores, issued, now>>
           ELSE \E t \in utcnow(now) :
                   /\ LET existing == enrollments[enrollment_id]
                          enrollment_read ==
                            replaced_enrollment(existing, enrollment_id, t, body)
                      IN  /\ enrollments' = Put(enrollments, enrollment_id, enrollment_read)
                          /\ Serve(r, Ok(200, enrollment_read))
                   /\ now' = t
                   /\ UNCHANGED <<persons, addresses, courses, issued>>

\* DELETE /enrollments/{enrollment_id}
delete_enrollment(enrollment_id) ==
    /\ CanServe
    /\ LET r == Request("delete_enrollment", enrollment_id, NoBody)
       IN  IF enrollment_id \notin DOMAIN enrollments
           THEN /\ Serve(r, HTTPException(404, "Enrollment not found"))
                /\ UNCHANGED <<stores, issued, now>>
           ELSE /\ enrollments' = Del(enrollments, enrollment_id)
                /\ Serve(r, Ok(200, [message |-> "Enrollment deleted successfully"]))
                /\ UNCHANGED <<persons, addresses, courses, issued, now>>

\* ------------------------------------------------- address and person schemas
\* models/address.py and models/person.py are not among the sources.  Their
\* records have the fields main.py reads; an address carries the identifier its
\* client chose, a person gets one from uuid4 and embeds a list of addresses.
\* The bodies drawn below are ones the schemas accept, and are kept as they are.
AddressFields == {"street", "city", "state", "postal_code", "country"}
\* AddressCreate(**body).model_dump()
AddressCreate(body) == [f \in AddressFields \cup {"id"} |-> body[f]]
\* AddressUpdate(**body).model_dump(exclude_unset=True)
AddressUpdate(body) == [f \in AddressFields \cap DOMAIN body |-> body[f]]
\* AddressRead(**d)
AddressRead(d) == [f \in AddressFields \cup {"id"} |-> d[f]]

PersonFields == {"uni", "first_name", "last_name", "email", "phone", "birth_date",
                 "addresses"}
\* PersonCreate(**body).model_dump()
PersonCreate(body) ==
    [f \in PersonFields |-> IF f \in DOMAIN body THEN body[f] ELSE <<>>]
\* PersonUpdate(**body).model_dump(exclude_unset=True)
PersonUpdate(body) == [f \in PersonFields \cap DOMAIN body |-> body[f]]
\* PersonRead(**d)
PersonRead(d, gen) ==
    [f \in PersonFields \cup {"id"} |->
        IF f \in DOMAIN d THEN d[f] ELSE gen[f]]

\* --------------------------------------------- sample address and person data
AddressA(id) ==
    [id |-> id, street |-> JStr("123 Main Street"), city |-> JStr("New York"),
     state |-> JStr("NY"), postal_code |-> JStr("10001"), country |-> JStr("USA")]
AddressB(id) ==
    [id |-> id, street |-> JStr("221B Baker St"), city |-> JStr("London"),
     state |-> JStr("LDN"), postal_code |-> JStr("NW1 6XE"), country |-> JStr("UK")]
\* Bodies of POST /addresses carrying the identifier id.
AddressBodies(id) == << AddressA(id), AddressB(id) >>
AddressUpdates ==
    << [f \in {} |-> Null],
       [city |-> JStr("Boston"), state |-> JStr("MA")] >>

PersonA ==
    [uni |-> JStr("abc1234"), first_name |-> JStr("Ada"), last_name |-> JStr("Lovelace"),
     email |-> JStr("ada@example.com"), phone |-> JStr("+1-212-555-0199"),
     birth_date |-> JStr("1815-12-10"), addresses |-> <<AddressA(1)>>]
PersonBodies ==
    << PersonA,
       [f \in DOMAIN PersonA \ {"addresses"} |-> PersonA[f]] >>
PersonUpdates ==
    << [f \in {} |-> Null],
       [first_name |-> JStr("Augusta"), addresses |-> <<>>] >>

\* ---------------------------------------------------------- address handlers
\* A create that stores the body without looking for its identifier first.
create_address_overwriting(body) ==
    /\ CanServe
    /\ LET address == AddressCreate(body)
       IN  /\ addresses' = Put(addresses, address.id, AddressRead(address))
           /\ Serve(Request("create_address", 0, body), Ok(201, addresses'[address.id]))
           /\ UNCHANGED <<persons, courses, enrollments, issued, now>>

\* POST /addresses
create_address(body) ==
    /\ CanServe
    /\ LET r == Request("create_address", 0, body)
           address == AddressCreate(body)
       IN  IF address.id \in DOMAIN addresses
           THEN /\ Serve(r, HTTPException(400, "Address with this ID already exists"))
                /\ UNCHANGED <<stores, issued, now>>
           ELSE /\ addresses' = Put(addresses, address.id, AddressRead(address))
                /\ Serve(r, Ok(201, addresses'[address.id]))
                /\ UNCHANGED <<persons, courses, enrollments, issued, now>>

\* GET /addresses/{address_id}
get_address(address_id) ==
    /\ CanServe
    /\ IF address_id \notin DOMAIN addresses
       THEN Serve(Request("get_address", address_id, NoBody),
                  HTTPException(404, "Address not found"))
       ELSE Serve(Request("get_address", address_id, NoBody),
                  Ok(200, addresses[address_id]))
    /\ UNCHANGED <<stores, issued, now>>

\* PATCH /addresses/{address_id}
update_address(address_id, body) ==
    /\ CanServe
    /\ LET r == Request("update_address", address_id, body)
       IN  IF address_id \notin DOMAIN addresses
           THEN /\ Serve(r, HTTPException(404, "Address not found"))
                /\ UNCHANGED <<stores, issued, now>>
           ELSE LET stored == DictUpdate(addresses[address_id], AddressUpdate(body))
                IN  /\ addresses' = Put(addresses, address_id, AddressRead(stored))
                    /\ Serve(r, Ok(200, addresses'[address_id]))
                    /\ UNCHANGED <<persons, courses, enrollments, issued, now>>

\* ----------------------------------------------------------- person handlers
\* POST /persons
create_person(body) ==
    /\ CanServe
    /\ \E id \in uuid4("persons") :
           LET person_read == PersonRead(PersonCreate(body), [id |-> id])
           IN  /\ persons' = Put(persons, person_read.id, person_read)
               /\ Serve(Request("create_person", 0, body), Ok(201, person_read))
               /\ issued' = [issued EXCEPT !["persons"] = @ \cup {id}]
               /\ UNCHANGED <<addresses, courses, enrollments, now>>

\* GET /persons/{person_id}
get_person(person_id) ==
    /\ CanServe
    /\ IF person_id \notin DOMAIN persons
       THEN Serve(Request("get_person", person_id, NoBody),
                  HTTPException(404, "Person not found"))
       ELSE Serve(Request("get_person", person_id, NoBody),
                  Ok(200, persons[person_id]))
    /\ UNCHANGED <<stores, issued, now>>

\* PATCH /persons/{person_id}
update_person(person_id, body) ==
    /\ CanServe
    /\ LET r == Request("update_person", person_id, body)
       IN  IF person_id \notin DOMAIN persons
           THEN /\ Serve(r, HTTPException(404, "Person not found"))
                /\ UNCHANGED <<stores, issued, now>>
           ELSE LET stored == DictUpdate(persons[person_id], PersonUpdate(body))
                IN  /\ persons' = Put(persons, person_id, PersonRead(stored, <<>>))
                    /\ Serve(r, Ok(200, persons'[person_id]))
                    /\ UNCHANGED <<addresses, courses, enrollments, issued, now>>

\* ------------------------------------------------------------ specification
EmptyStore == [k \in {} |-> Null]

Init ==
    /\ persons = EmptyStore
    /\ addresses = EmptyStore
    /\ courses = EmptyStore
    /\ enrollments = EmptyStore
    /\ issued = [s \in {"persons", "courses", "enrollments"} |-> {}]
    /\ now = 0
    /\ nreq = 0
    /\ req = Request("none", 0, NoBody)
    /\ resp = Ok(0, NoBody)
    /\ threads = [w \in Workers |-> Idle]
    /\ answered = <<>>

Index(samples) == 1..Len(samples)

Requests ==
    \/ \E i \in Index(CourseBodies) : create_course(CourseBodies[i])
    \/ \E i \in Index(CourseQueries) : list_courses(CourseQueries[i])
    \/ \E id \in UUIDs : get_course(id)
    \/ \E id \in UUIDs, i \in Index(CourseUpdates) : update_course(id, CourseUpdates[i])
    \/ \E id \in UUIDs, i \in Index(CourseBodies) : replace_course(id, CourseBodies[i])
    \/ \E id \in UUIDs : delete_course(id)
    \/ \E i \in Index(EnrollmentBodies) : create_enrollment(EnrollmentBodies[i])
    \/ \E i \in Index(EnrollmentQueries) : list_enrollments(EnrollmentQueries[i])
    \/ \E id \in UUIDs : get_enrollment(id)
    \/ \E id \in UUIDs, i \in Index(EnrollmentUpdates) :
          update_enrollment(id, EnrollmentUpdates[i])
    \/ \E id \in UUIDs, i \in Index(EnrollmentBodies) :
          replace_enrollment(id, EnrollmentBodies[i])
    \/ \E id \in UUIDs : delete_enrollment(id)
    \/ \E id \in UUIDs : \E i \in Index(AddressBodies(id)) :
          create_address(AddressBodies(id)[i])
    \/ \E id \in UUIDs : get_address(id)
    \/ \E id \in UUIDs, i \in Index(AddressUpdates) : update_address(id, AddressUpdates[i])
    \/ \E i \in Index(PersonBodies) : create_person(PersonBodies[i])
    \/ \E id \in UUIDs : get_person(id)
    \/ \E id \in UUIDs, i \in Index(PersonUpdates) : update_person(id, PersonUpdates[i])

Next == Requests

Spec == Init /\ [][Next]_vars

\* ---------------------------------------------------------------------------
\* Concurrent handlers.  The handlers are declared with def, not async def, so
\* FastAPI runs each in a worker thread of a pool, and main.py takes no lock:
\* two handlers interleave between any two accesses to a store.  A handler is
\* modelled here one store access per step, pc being the line of main.py the
\* worker is to run next.  The bodies drawn are ones validation accepts.

\* The worker w is at the given line of the handler op.
At(w, op, line) == threads[w].pc = line /\ threads[w].req.op = op
\* It goes on to another line, holding the local variable stored.
Goto(w, line, stored) ==
    /\ threads' = [threads EXCEPT ![w] = [@ EXCEPT !.pc = line, !.stored = stored]]
    /\ UNCHANGED answered
\* Its handler returns, or raises: the response is recorded.
Return(w, answer) ==
    /\ threads' = [threads EXCEPT ![w] = Idle]
    /\ answered' = Append(answered,
                          [op |-> threads[w].req.op,
                           id |-> IF threads[w].req.op = "create_address"
                                  THEN threads[w].req.body.id ELSE threads[w].req.id,
                           status |-> answer.status])

\* A request arrives and is handed to an idle worker, at the first line of its
\* handler.
begin(w, r, line) ==
    /\ nreq < MaxReqs
    /\ threads[w].pc = 0
    /\ threads' = [threads EXCEPT ![w] = [pc |-> line, req |-> r, stored |-> NoBody]]
    /\ nreq' = nreq + 1
    /\ UNCHANGED <<stores, issued, now, req, resp, answered>>

\* create_course, lines 172-174: the record is built, stored and returned.
create_course_172(w) ==
    /\ At(w, "create_course", 172)
    /\ \E id \in uuid4("courses"), t1 \in utcnow(now) : \E t2 \in utcnow(t1) :
          /\ LET course_read ==
                   CourseRead(CourseCreate(threads[w].req.body),
                              [id |-> id, created_at |-> t1, updated_at |-> t2])
             IN  /\ courses' = Put(courses, course_read.id, course_read)
                 /\ Return(w, Ok(201, course_read))
          /\ issued' = [issued EXCEPT !["courses"] = @ \cup {id}]
          /\ now' = t2
    /\ UNCHANGED <<persons, addresses, enrollments, nreq, req, resp>>

\* update_course, line 210: if course_uuid not in courses.
update_course_210(w) ==
    /\ At(w, "update_course", 210)
    /\ IF threads[w].req.id \notin DOMAIN courses
       THEN Return(w, HTTPException(404, "Course not found"))
       ELSE Goto(w, 212, NoBody)
    /\ UNCHANGED <<stores, issued, now, nreq, req, resp>>

\* update_course, lines 212-213: stored = courses[course_uuid].model_dump(),
\* then stored.update(...) on the local dict.  A missing key raises KeyError.
update_course_212(w) ==
    /\ At(w, "update_course", 212)
    /\ IF threads[w].req.id \notin DOMAIN courses
       THEN Return(w, InternalServerError)
       ELSE Goto(w, 214, DictUpdate(courses[threads[w].req.id],
                                    CourseUpdate(threads[w].req.body)))
    /\ UNCHANGED <<stores, issued, now, nreq, req, resp>>

\* update_course, line 214: courses[course_uuid] = CourseRead(**stored).
update_course_214(w) ==
    /\ At(w, "update_course", 214)
    /\ IF CourseBaseErrors(threads[w].stored) # {}
       THEN /\ Return(w, InternalServerError)
            /\ UNCHANGED courses
       ELSE /\ courses' = Put(courses, threads[w].req.id,
                              CourseRead(threads[w].stored, <<>>))
            /\ Goto(w, 215, NoBody)
    /\ UNCHANGED <<persons, addresses, enrollments, issued, now, nreq, req, resp>>

\* update_course, line 215: return courses[course_uuid].
update_course_215(w) ==
    /\ At(w, "update_course", 215)
    /\ IF threads[w].req.id \notin DOMAIN courses
       THEN Return(w, InternalServerError)
       ELSE Return(w, Ok(200, courses[threads[w].req.id]))
    /\ UNCHANGED <<stores, issued, now, nreq, req, resp>>

\* delete_course, line 235: if course_uuid not in courses.
delete_course_235(w) ==
    /\ At(w, "delete_course", 235)
    /\ IF threads[w].req.id \notin DOMAIN courses
       THEN Return(w, HTTPException(404, "Course not found"))
       ELSE Goto(w, 237, NoBody)
    /\ UNCHANGED <<stores, issued, now, nreq, req, resp>>

\* delete_course, lines 237-238: del courses[course_uuid], and the message.
delete_course_237(w) ==
    /\ At(w, "delete_course", 237)
    /\ IF threads[w].req.id \notin DOMAIN courses
       THEN /\ Return(w, InternalServerError)
            /\ UNCHANGED courses
       ELSE /\ courses' = Del(courses, threads[w].req.id)
            /\ Return(w, Ok(200, [message |-> "Course deleted successfully"]))
    /\ UNCHANGED <<persons, addresses, enrollments, issued, now, nreq, req, resp>>

\* create_address, line 64: if address.id in addresses.
create_address_64(w) ==
    /\ At(w, "create_address", 64)
    /\ IF AddressCreate(threads[w].req.body).id \in DOMAIN addresses
       THEN Return(w, HTTPException(400, "Address with this ID already exists"))
       ELSE Goto(w, 66, NoBody)
    /\ UNCHANGED <<stores, issued, now, nreq, req, resp>>

\* create_address, line 66: addresses[address.id] = AddressRead(...).
create_address_66(w) ==
    /\ At(w, "create_address", 66)
    /\ LET address == AddressCreate(threads[w].req.body)
       IN  addresses' = Put(addresses, address.id, AddressRead(address))
    /\ Goto(w, 67, NoBody)
    /\ UNCHANGED <<persons, courses, enrollments, issued, now, nreq, req, resp>>

\* create_address, line 67: return addresses[address.id].
create_address_67(w) ==
    /\ At(w, "create_address", 67)
    /\ Return(w, Ok(201, addresses[AddressCreate(threads[w].req.body).id]))
    /\ UNCHANGED <<stores, issued, now, nreq, req, resp>>

InitConc == Init

NextConc ==
    \/ \E w \in Workers : begin(w, Request("create_course", 0, CourseA), 172)
    \/ \E w \in Workers, id \in UUIDs :
          begin(w, Request("update_course", id, CourseUpdates[2]), 210)
    \/ \E w \in Workers, id \in UUIDs :
          begin(w, Request("delete_course", id, NoBody), 235)
    \/ \E w \in Workers, id \in UUIDs : \E i \in Index(AddressBodies(id)) :
          begin(w, Request("create_address", 0, AddressBodies(id)[i]), 64)
    \/ \E w \in Workers : create_course_172(w)
    \/ \E w \in Workers : update_course_210(w)
    \/ \E w \in Workers : update_course_212(w)
    \/ \E w \in Workers : update_course_214(w)
    \/ \E w \in Workers : update_course_215(w)
    \/ \E w \in Workers : delete_course_235(w)
    \/ \E w \in Workers : delete_course_237(w)
    \/ \E w \in Workers : create_address_64(w)
    \/ \E w \in Workers : create_address_66(w)
    \/ \E w \in Workers : create_address_67(w)

SpecConc == InitConc /\ [][NextConc]_vars


\* ===================================================================== properties
\* A request was served in this step.
Step == nreq' = nreq + 1
\* The step served a request op that was answered with status code.
Answered(op, code) == Step /\ req'.op = op /\ resp'.status = code

\* ------------------------------------------------------------------------ C1
\* The store new is the store old with the record under id patched by body:
\* no record is added or removed, no other record changes, and in the record
\* under id every field the body omits, and id, created_at and updated_at, keep
\* their values, while every field the body supplies takes the body's value.
PatchFrame(old, new, id, body, Fields, UpdateField(_, _)) ==
    /\ id \in DOMAIN old
    /\ DOMAIN new = DOMAIN old
    /\ \A k \in DOMAIN old \ {id} : new[k] = old[k]
    /\ DOMAIN new[id] = Fields \cup ReadOnlyFields
    /\ \A f \in Fields \cup ReadOnlyFields :
          IF f \in DOMAIN body /\ f \in Fields
          THEN new[id][f] = UpdateField(f, body[f])
          ELSE new[id][f] = old[id][f]

CreatedAtKept(old, new) ==
    \A id \in DOMAIN old \cap DOMAIN new : new[id].created_at = old[id].created_at
CreatedBeforeUpdated(store) ==
    \A id \in DOMAIN store : store[id].created_at <= store[id].updated_at
\* The record a successful create stored is stamped with the clock's readings.
CreateStamped(new, record) ==
    /\ new[record.id] = record
    /\ now <= record.created_at
    /\ record.created_at <= record.updated_at
    /\ record.updated_at = now'

\* C2: with a clock that never goes back, a record's created_at keeps the value
\* it got at creation across every later request, every successful PUT sets
\* updated_at to the time of the PUT, and every stored record has
\* created_at <= updated_at.
C2_Timestamps ==
    [][ /\ now <= now'
        /\ CreatedAtKept(courses, courses')
        /\ CreatedAtKept(enrollments, enrollments')
        /\ Answered("create_course", 201) => CreateStamped(courses', resp'.body)
        /\ Answered("create_enrollment", 201) => CreateStamped(enrollments', resp'.body)
        /\ Answered("replace_course", 200) => courses'[req'.id].updated_at = now'
        /\ Answered("replace_enrollment", 200) => enrollments'[req'.id].updated_at = now'
        /\ CreatedBeforeUpdated(courses')
        /\ CreatedBeforeUpdated(enrollments')
      ]_vars

\* A PUT at a later time than the creation: created_at is the older value.
C2_Witness ==
    /\ req.op = "replace_course" /\ resp.status = 200
    /\ courses[req.id].created_at = 0
    /\ courses[req.id].updated_at = 1
    /\ now = 1

\* ------------------------------------------------------------------------ C3
\* The record holds, for every field, the validated value of the body, or the
\* schema's default when the body omits the field.
HoldsBody(record, body, Fields, BaseField(_, _), Default(_)) ==
    \A f \in Fields :
        record[f] = IF f \in DOMAIN body THEN BaseField(f, body[f]) ELSE Default(f)
NullDefault(f) == Null
StatusDefault(f) == IF f = "status" THEN JStr("active") ELSE Null

\* C3: a successful PUT on an existing course or enrollment stores, under the
\* path identifier, a record whose id is the path identifier and whose every
\* payload field has the body's value, or the schema default (null; active for
\* status) when the body omits it: no prior value of those fields survives.
C3_PutReplacesEveryField ==
    [][ /\ Answered("replace_course", 200) =>
              /\ req'.id \in DOMAIN courses
              /\ DOMAIN courses' = DOMAIN courses
              /\ courses'[req'.id].id = req'.id
              /\ HoldsBody(courses'[req'.id], req'.body, CourseFields,
                           CourseBaseField, NullDefault)
        /\ Answered("replace_enrollment", 200) =>
              /\ req'.id \in DOMAIN enrollments
              /\ DOMAIN enrollments' = DOMAIN enrollments
              /\ enrollments'[req'.id].id = req'.id
              /\ HoldsBody(enrollments'[req'.id], req'.body, EnrollmentFields,
                           EnrollmentBaseField, StatusDefault)
      ]_vars

\* The third request was a PUT of a body without description and max_enrollment
\* on a course that, by then, carried the name "Intro": the stored record has
\* the body's name and no description.
C3_Witness ==
    /\ nreq = 3
    /\ req.op = "replace_course" /\ resp.status = 200
    /\ "description" \notin DOMAIN req.body
    /\ courses[req.id].description = Null
    /\ courses[req.id].max_enrollment = Null
    /\ courses[req.id].name = JStr(Calc)
    /\ courses[req.id].credits = JInt(4)


\* ------------------------------------------------------------------------ C4
\* C4: POST /addresses with an identifier that is already a key of the address
\* store fails with 400 and leaves the address store (and every other store)
\* as it was: the record of the first creation is the one retained.
C4_DuplicateAddressRefused ==
    [][ (Step /\ req'.op = "create_address" /\ req'.body.id \in DOMAIN addresses) =>
            /\ resp'.status = 400
            /\ resp'.body = "Address with this ID already exists"
            /\ addresses' = addresses
            /\ stores' = stores
      ]_vars

\* A second POST with the identifier of a stored address and another city was
\* refused, and the stored address is still the first one.
C4_Witness ==
    /\ req.op = "create_address" /\ resp.status = 400
    /\ req.body.id \in DOMAIN addresses
    /\ req.body.city = JStr("London")
    /\ addresses[req.body.id].city = JStr("New York")

\* ------------------------------------------------------------------------ C5
\* The identifiers of a store's deleted records: returned by uuid4 for a record
\* of that store, and no key of the store now.
Deleted(store, name) == issued[name] \ DOMAIN store

\* A successful DELETE of id removed exactly the record under id.
RemovedExactly(old, new, id, message) ==
    /\ id \in DOMAIN old
    /\ DOMAIN new = DOMAIN old \ {id}
    /\ \A k \in DOMAIN new : new[k] = old[k]
    /\ resp'.body = [message |-> message]

\* The body of the request is one the schema of its operation accepts (FastAPI
\* answers any other with 422 before the handler runs).
Accepted(r) ==
    CASE r.op \in {"create_course", "replace_course"} -> CourseBaseErrors(r.body) = {}
      [] r.op = "update_course" -> CourseUpdateErrors(r.body) = {}
      [] r.op \in {"create_enrollment", "replace_enrollment"} ->
             EnrollmentBaseErrors(r.body) = {}
      [] r.op = "update_enrollment" -> EnrollmentUpdateErrors(r.body) = {}
      [] r.op = "list_courses" -> CourseQueryErrors(r.body) = {}
      [] r.op = "list_enrollments" -> EnrollmentQueryErrors(r.body) = {}
      [] OTHER -> TRUE

\* Once deleted, id stays deleted, and a request on it is answered 404.
StaysDeleted(old, new, name, ops) ==
    \A id \in Deleted(old, name) :
        /\ id \in issued'[name] \ DOMAIN new
        /\ (Step /\ req'.op \in ops /\ req'.id = id /\ Accepted(req')) =>
               /\ resp'.status = 404
               /\ stores' = stores

CourseIdOps == {"get_course", "update_course", "replace_course", "delete_course"}
EnrollmentIdOps == {"get_enrollment", "update_enrollment", "replace_enrollment",
                    "delete_enrollment"}

\* C5: a DELETE on an existing course or enrollment removes exactly that record
\* and returns the confirmation message; from then on the identifier is never
\* a key of the store again, and every get, DELETE, and PATCH or PUT (with a body
\* the schema accepts) on it is answered 404.
C5_DeletedStaysDeleted ==
    [][ /\ Answered("delete_course", 200) =>
              /\ RemovedExactly(courses, courses', req'.id, "Course deleted successfully")
              /\ req'.id \in Deleted(courses, "courses")'
        /\ Answered("delete_enrollment", 200) =>
              /\ RemovedExactly(enrollments, enrollments', req'.id,
                                "Enrollment deleted successfully")
              /\ req'.id \in Deleted(enrollments, "enrollments")'
        /\ StaysDeleted(courses, courses', "courses", CourseIdOps)
        /\ StaysDeleted(enrollments, enrollments', "enrollments", EnrollmentIdOps)
      ]_vars

\* A course was created and deleted, and the second DELETE was answered 404.
C5_Witness ==
    /\ nreq = 3
    /\ req.op = "delete_course" /\ resp.status = 404
    /\ req.id \in Deleted(courses, "courses")

\* ------------------------------------------------------------------------ C6
\* A request on an identifier that is no key of its store is answered 404, and
\* no store changes.
NotFoundOn(store, ops) ==
    (Step /\ req'.op \in ops /\ req'.id \notin DOMAIN store) =>
        /\ stores' = stores
        /\ resp'.status >= 400
        /\ Accepted(req') => resp'.status = 404

\* C6: for every resource type, a get-by-id, PATCH, PUT or DELETE on an
\* identifier that is no key of the store is answered 404 (the PATCH and the PUT
\* with a body the schema accepts), is never answered with a record, and leaves
\* the four stores as they were: no PATCH or PUT creates a record.
C6_UnknownIdIsNotFound ==
    [][ /\ NotFoundOn(courses, CourseIdOps)
        /\ NotFoundOn(enrollments, EnrollmentIdOps)
        /\ NotFoundOn(addresses, {"get_address", "update_address"})
        /\ NotFoundOn(persons, {"get_person", "update_person"})
      ]_vars

\* A PUT with a valid body on an identifier that is no key was answered 404
\* while the store holds another course.
C6_Witness ==
    /\ req.op = "replace_course" /\ resp.status = 404
    /\ Accepted(req)
    /\ req.id \notin DOMAIN courses
    /\ DOMAIN courses # {}


\* ------------------------------------------------------------------------ C7
\* No worker is in a handler.
Quiescent == \A w \in Workers : threads[w].pc = 0
\* The handlers run so far that answered op with the given status.
AnsweredWith(op, status) ==
    {i \in DOMAIN answered : answered[i].op = op /\ answered[i].status = status}

\* Identifiers are not issued twice, so in every serial order a course whose
\* DELETE was answered 200 is absent from the store from then on.
DeletedCourseAbsent ==
    \A i \in AnsweredWith("delete_course", 200) : answered[i].id \notin DOMAIN courses
\* In every serial order the second POST /addresses of an identifier finds it.
OneAddressCreated ==
    \A i, j \in AnsweredWith("create_address", 201) :
        answered[i].id = answered[j].id => i = j
\* In every serial order each of these requests is answered by its handler's
\* return or by one of its HTTPExceptions.
NoHandlerCrashed == \A i \in DOMAIN answered : answered[i].status # 500

\* C7: store operations are atomic: when handlers on one store run
\* concurrently, the store and the responses are those of some serial order of
\* the requests.  So, once no handler is running: a course whose DELETE was
\* answered 200 is not in the store, whatever PATCH raced with it; no two
\* POST /addresses of one identifier were both answered 201; and no handler
\* failed with an error that it raises in no serial order.
C7_StoreOperationsAtomic ==
    Quiescent => DeletedCourseAbsent /\ OneAddressCreated /\ NoHandlerCrashed

\* ------------------------------------------------------------------------ C8
\* The operations that answer with the record they stored, and the get-by-id
\* of the same resource.
GetOf(op) ==
    CASE op \in {"create_course", "update_course", "replace_course"} -> "get_course"
      [] op \in {"create_enrollment", "update_enrollment", "replace_enrollment"} ->
             "get_enrollment"
      [] op \in {"create_address", "update_address"} -> "get_address"
      [] op \in {"create_person", "update_person"} -> "get_person"
      [] OTHER -> "none"

\* C8: a get-by-id that directly follows a successful create, PATCH or PUT, on
\* the identifier of the record that request returned, is answered 200 with a
\* record equal field for field to the returned one.
C8_MutationVisibleToGet ==
    [][ ( /\ Step
          /\ GetOf(req.op) # "none"
          /\ resp.status \in {200, 201}
          /\ req'.op = GetOf(req.op)
          /\ req'.id = resp.body.id ) =>
            /\ resp'.status = 200
            /\ resp'.body = resp.body
      ]_vars

\* The second request was a get of a course, answered with a record whose two
\* timestamps differ: the first request created it.
C8_Witness ==
    /\ nreq = 2
    /\ req.op = "get_course" /\ resp.status = 200
    /\ resp.body.id = req.id
    /\ resp.body.created_at < resp.body.updated_at

\* ------------------------------------------------------------------------ C9
\* Two characters that are the same letter, whatever their cases.
SameLetter(a, b) ==
    \/ a = b
    \/ \E i \in 1..26 : {a, b} = {Uppers[i], Lowers[i]}
\* The text a occurs in the text b, cases disregarded.
OccursIn(a, b) ==
    \E k \in 0..(Len(b) - Len(a)) : \A i \in 1..Len(a) : SameLetter(a[i], b[k + i])

\* The record c passes the test of the query parameter f of value v.
CourseMatch(c, f, v) ==
    CASE f = "name" -> OccursIn(v[2], c.name[2])
      [] f = "credits" -> c.credits = IntField(v)
      [] OTHER -> c[f] = v
EnrollmentMatch(e, f, v) ==
    CASE f = "enrollment_date" -> DateStr(e.enrollment_date) = v[2]
      [] OTHER -> e[f] = v

\* C9: GET /enrollments and GET /courses return exactly the stored records that
\* pass the test of every query parameter supplied (equality on the field; for
\* a course's name, occurrence in the name with cases disregarded); a parameter
\* that is absent constrains nothing, so a call without parameters returns
\* every stored record; and the call leaves the stores as they were.
C9_ListReturnsMatches ==
    [][ /\ Answered("list_enrollments", 200) =>
              /\ resp'.body = {e \in Values(enrollments) :
                                  \A f \in DOMAIN req'.body :
                                      EnrollmentMatch(e, f, req'.body[f])}
              /\ DOMAIN req'.body = {} => resp'.body = Values(enrollments)
              /\ stores' = stores
        /\ Answered("list_courses", 200) =>
              /\ resp'.body = {c \in Values(courses) :
                                  \A f \in DOMAIN req'.body :
                                      CourseMatch(c, f, req'.body[f])}
              /\ DOMAIN req'.body = {} => resp'.body = Values(courses)
              /\ stores' = stores
        /\ (Step /\ req'.op \in {"list_courses", "list_enrollments"} /\ Accepted(req'))
              => resp'.status = 200
      ]_vars

\* Of two stored courses, a query of two parameters (a part of the name in
\* another case, and the credits) returned one.
C9_Witness ==
    /\ req.op = "list_courses" /\ resp.status = 200
    /\ DOMAIN req.body = {"name", "credits"}
    /\ Cardinality(DOMAIN courses) = 2
    /\ Cardinality(resp.body) = 1

\* ----------------------------------------------------------------------- C10
CourseConstraints(c) ==
    /\ c.credits[1] = "int" /\ c.credits[2] \in 1..6
    /\ c.course_id[1] = "str" /\ CourseIDPattern(c.course_id[2])
    /\ c.max_enrollment = Null
          \/ (c.max_enrollment[1] = "int" /\ c.max_enrollment[2] >= 1)
EnrollmentConstraints(e) ==
    /\ e.status \in {JStr("active"), JStr("dropped"), JStr("completed"), JStr("withdrawn")}
    /\ e.credits_earned = Null
          \/ (e.credits_earned[1] = "int" /\ e.credits_earned[2] >= 0)

\* The body supplies a value that breaks a constraint of C10: one that its field
\* would not be allowed to hold in a stored record.
BreaksConstraint(r) ==
    \/ /\ r.op \in {"create_course", "update_course", "replace_course"}
       /\ \E f \in {"credits", "course_id", "max_enrollment"} \cap DOMAIN r.body :
             CourseBaseField(f, r.body[f]) = Invalid
    \/ /\ r.op \in {"create_enrollment", "update_enrollment", "replace_enrollment"}
       /\ \E f \in {"status", "credits_earned"} \cap DOMAIN r.body :
             EnrollmentBaseField(f, r.body[f]) = Invalid

\* C10: whatever requests are served, valid or not, every stored course has
\* credits in 1..6, a course_id of the course-id pattern and max_enrollment null
\* or >= 1, and every stored enrollment has a status of the enumeration and
\* credits_earned null or >= 0; a request whose body breaks one of these
\* constraints is refused and leaves the stores as they were.
C10_StoredRecordsMeetConstraints ==
    [][ /\ \A c \in Values(courses') : CourseConstraints(c)
        /\ \A e \in Values(enrollments') : EnrollmentConstraints(e)
        /\ (Step /\ BreaksConstraint(req')) =>
              /\ resp'.status >= 400
              /\ stores' = stores
      ]_vars

\* A PUT with credits 7 on a stored course was refused, the credits named in
\* the answer.
C10_Witness ==
    /\ req.op = "replace_course" /\ resp.status = 422
    /\ req.id \in DOMAIN courses
    /\ req.body.credits = JInt(7)
    /\ "credits" \in resp.body

\* ----------------------------------------------------------------------- C11
\* Every key of the store maps to a record whose id is that key.
KeyedById(store) == \A k \in DOMAIN store : store[k].id = k

\* The create answered 201 added one record, under an identifier the store
\* neither holds nor has been issued before, that the body did not choose; the
\* records stored before are as they were.
CreateAddsOne(old, new, name) ==
    \E id \in DOMAIN new \ DOMAIN old :
        /\ DOMAIN new = DOMAIN old \cup {id}
        /\ id \notin issued[name]
        /\ resp'.body = new[id]
        /\ \A k \in DOMAIN old : new[k] = old[k]

\* C11: in every state each store maps every key to a record whose id is that
\* key; a create on persons, courses or enrollments adds exactly one record,
\* under a generated identifier that was not in the store before, and leaves
\* every record stored before unchanged.
C11_CreateAddsUnderFreshId ==
    [][ /\ KeyedById(persons') /\ KeyedById(addresses')
        /\ KeyedById(courses') /\ KeyedById(enrollments')
        /\ Answered("create_person", 201) => CreateAddsOne(persons, persons', "persons")
        /\ Answered("create_course", 201) => CreateAddsOne(courses, courses', "courses")
        /\ Answered("create_enrollment", 201) =>
              CreateAddsOne(enrollments, enrollments', "enrollments")
        /\ (Step /\ req'.op \in {"create_person", "create_course", "create_enrollment"}
                 /\ Accepted(req')) => resp'.status = 201
      ]_vars

\* A second enrollment was created next to the first, from the same body.
C11_Witness ==
    /\ req.op = "create_enrollment" /\ resp.status = 201
    /\ Cardinality(DOMAIN enrollments) = 2
    /\ \A k \in DOMAIN enrollments :
          enrollments[k].student_uni = resp.body.student_uni
    /\ resp.body.id = 2

\* ----------------------------------------------------------------------- C12
\* The operations of each resource type.
PersonOps == {"create_person", "get_person", "update_person"}
AddressOps == {"create_address", "get_address", "update_address"}
CourseOps == {"create_course", "list_courses", "get_course", "update_course",
              "replace_course", "delete_course"}
EnrollmentOps == {"create_enrollment", "list_enrollments", "get_enrollment",
                  "update_enrollment", "replace_enrollment", "delete_enrollment"}

\* C12: the four stores are independent.  A request changes no store but the
\* one of its own resource type; a create of an enrollment that validation
\* accepts is answered 201 whatever the courses stored, none with its
\* course_id included; and a delete of a course leaves every enrollment in
\* place and unchanged, those carrying its course_id included.
C12_StoresIndependent ==
    [][ Step =>
          /\ req'.op \notin PersonOps => persons' = persons
          /\ req'.op \notin AddressOps => addresses' = addresses
          /\ req'.op \notin CourseOps => courses' = courses
          /\ req'.op \notin EnrollmentOps => enrollments' = enrollments
          /\ (req'.op = "create_enrollment" /\ Accepted(req')) =>
                /\ resp'.status = 201
                /\ resp'.body.course_id = req'.body.course_id
                /\ resp'.body.id \in DOMAIN enrollments'
          /\ req'.op = "delete_course" => enrollments' = enrollments
      ]_vars

\* A course was deleted while an enrollment carries its course_id: the
\* enrollment is still stored, and now refers to no stored course.
C12_Witness ==
    /\ req.op = "delete_course" /\ resp.status = 200
    /\ courses = EmptyStore
    /\ \E k \in DOMAIN enrollments : enrollments[k].course_id = JStr(CS1234)
    /\ issued["courses"] # {}

\* ----------------------------------------------------------------------- C13
\* A request that creates, replaces or partially updates an enrollment and
\* whose body gives a string as course_id.
GivesCourseId(r) ==
    /\ r.op \in {"create_enrollment", "replace_enrollment", "update_enrollment"}
    /\ "course_id" \in DOMAIN r.body
    /\ Tag(r.body.course_id) = "str"
\* The response is a validation error that names course_id.
CourseIdRefused(answer) == answer.status = 422 /\ "course_id" \in answer.body

\* C13 as stated: an enrollment's course_id is a free-form string; a create,
\* replace or partial update of an enrollment is never refused on account of
\* its course_id, whatever string it is.
C13_CourseIdFreeForm ==
    [][ (Step /\ GivesCourseId(req')) => ~CourseIdRefused(resp') ]_vars

\* C13 as amended: an enrollment's course_id is held to the pattern of a
\* course's course_id.  A create, replace or partial update of an enrollment
\* whose course_id is a string is refused with a validation error naming
\* course_id, the stores unchanged, exactly when the string does not match the
\* pattern; a matching string is accepted whether or not a stored course has it.
C13_CourseIdMatchesPattern ==
    [][ (Step /\ GivesCourseId(req')) =>
          /\ CourseIdRefused(resp') <=> ~CourseIDPattern(req'.body.course_id[2])
          /\ CourseIdRefused(resp') => stores' = stores
          /\ resp'.status \in {200, 201} =>
                resp'.body.course_id = req'.body.course_id
      ]_vars

\* A PATCH giving the course_id "Intro" to a stored enrollment was refused,
\* course_id named in the answer.
C13_Witness ==
    /\ req.op = "update_enrollment" /\ CourseIdRefused(resp)
    /\ req.body.course_id = JStr(Intro)
    /\ req.id \in DOMAIN enrollments

\* ----------------------------------------------------------------------- C14
\* The fields of the PATCH body r that are given null though the stored record
\* must hold a value there.
NullRequired(r) ==
    IF r.op = "update_course"
    THEN {f \in (CourseFields \ CourseOptional) \cap DOMAIN r.body : r.body[f] = Null}
    ELSE {f \in (EnrollmentFields \ EnrollmentOptional) \cap DOMAIN r.body :
             r.body[f] = Null}
\* The store the PATCH r is on.
PatchedStore(r) == IF r.op = "update_course" THEN courses ELSE enrollments

\* C14: a PATCH answers with success, a validation error or not-found, and
\* nothing else; unless it succeeds the stores are as they were; and a PATCH on
\* a stored course or enrollment that gives null to a required field is
\* answered with a validation error (4xx) whose detail names such a field.
C14_NullForRequiredIsValidationError ==
    [][ (Step /\ req'.op \in {"update_course", "update_enrollment"}) =>
          /\ resp'.status \in {200, 404, 422}
          /\ resp'.status # 200 => stores' = stores
          /\ (req'.id \in DOMAIN PatchedStore(req') /\ NullRequired(req') # {}) =>
                /\ resp'.status = 422
                /\ resp'.body \cap NullRequired(req') # {}
      ]_vars

=============================================================================
